---- MODULE Spec2Model ----
(***************************************************************************)
(* Model of the CIMD local OAuth authorization server: the /authorize and  *)
(* /token handlers with the client_id URL validator, the client metadata   *)
(* fetcher/validator and the redirect URI matcher they call.               *)
(*                                                                         *)
(* JavaScript strings are modelled as sequences of tokens, a token being a *)
(* run of characters that the URL parser never looks inside ("https", ":", *)
(* "//", "a.test", "/", "..", "#", ...).  String equality is equality of   *)
(* the sequences, concatenation is \o, startsWith is a prefix test.        *)
(* JavaScript values are tagged records: Undefined, Str(s), Arr(items),    *)
(* Num(n).                                                                 *)
(***************************************************************************)
EXTENDS Integers, Sequences, FiniteSets

VARIABLES reqs, tokens, now, probe, cb

vars == <<reqs, tokens, now, probe, cb>>

(***************************************************************************)
(* JavaScript values                                                       *)
(***************************************************************************)
Undefined == [t |-> "undefined"]

Str(s) == [t |-> "string", s |-> s]

Arr(items) == [t |-> "array", items |-> items]

Num(n) == [t |-> "number", n |-> n]

\* String(array) for an array of strings: the items joined by ",".
RECURSIVE ArrayToString(_)
ArrayToString(items) ==
  IF items = <<>> THEN <<>>
  ELSE IF Len(items) = 1 THEN Head(items).s
  ELSE Head(items).s \o <<",">> \o ArrayToString(Tail(items))

\* String(v) for the values that occur: String(undefined) is "undefined".
JsString(v) ==
  CASE v.t = "undefined" -> <<"undefined">>
    [] v.t = "string" -> v.s
    [] v.t = "number" -> <<"0">>
    [] v.t = "array" -> ArrayToString(v.items)

\* JavaScript truthiness: undefined, "" and 0 are falsy.
Truthy(v) ==
  CASE v.t = "undefined" -> FALSE
    [] v.t = "string" -> v.s # <<>>
    [] v.t = "number" -> v.n # 0
    [] v.t = "array" -> TRUE

\* str.startsWith(prefix)
StartsWith(s, prefix) ==
  /\ Len(s) >= Len(prefix)
  /\ SubSeq(s, 1, Len(prefix)) = prefix

(***************************************************************************)
(* Sequence helpers                                                        *)
(***************************************************************************)
\* Index of the first tok in s, 0 when there is none.
IndexOf(s, tok) ==
  IF \E i \in 1..Len(s) : s[i] = tok
  THEN CHOOSE i \in 1..Len(s) : s[i] = tok /\ \A j \in 1..(i - 1) : s[j] # tok
  ELSE 0

\* Index of the last tok in s, 0 when there is none.
LastIndexOf(s, tok) ==
  IF \E i \in 1..Len(s) : s[i] = tok
  THEN CHOOSE i \in 1..Len(s) : s[i] = tok /\ \A j \in (i + 1)..Len(s) : s[j] # tok
  ELSE 0

\* The part of s before the first tok: all of s when there is none.
Before(s, tok) == IF IndexOf(s, tok) = 0 THEN s ELSE SubSeq(s, 1, IndexOf(s, tok) - 1)

\* The part of s after the first tok: empty when there is none.
After(s, tok) == IF IndexOf(s, tok) = 0 THEN <<>> ELSE SubSeq(s, IndexOf(s, tok) + 1, Len(s))

\* The part of s before the last tok: empty when there is none.
BeforeLast(s, tok) ==
  IF LastIndexOf(s, tok) = 0 THEN <<>> ELSE SubSeq(s, 1, LastIndexOf(s, tok) - 1)

\* The part of s after the last tok: all of s when there is none.
AfterLast(s, tok) == SubSeq(s, LastIndexOf(s, tok) + 1, Len(s))

\* s.split(sep): the pieces between the separators, empty pieces included.
RECURSIVE Split(_, _)
Split(s, sep) ==
  IF IndexOf(s, sep) = 0
  THEN <<s>>
  ELSE <<Before(s, sep)>> \o Split(After(s, sep), sep)

(***************************************************************************)
(* new URL(input): the WHATWG URL parser on token sequences, for the       *)
(* special schemes http and https and no base URL.  The token alphabet has *)
(* no port, no backslash and no character that needs percent-encoding.     *)
(***************************************************************************)
SchemeTokens == {"https", "http", "HTTPS"}

\* ASCII lower-casing of the scheme and host tokens.
Lower(tok) ==
  CASE tok = "HTTPS" -> "https"
    [] tok = "A.TEST" -> "a.test"
    [] OTHER -> tok

IsSingleDot(seg) == seg \in {<<".">>, <<"%2e">>}

IsDoubleDot(seg) == seg \in {<<"..">>, <<".", "%2e">>, <<"%2e", ".">>, <<"%2e", "%2e">>}

\* The parser's path state: dot-segments are resolved while parsing, a
\* double-dot removes the segment before it, and a dot-segment that ends
\* the path leaves an empty last segment.
RECURSIVE ResolvePath(_, _)
ResolvePath(segs, acc) ==
  IF segs = <<>>
  THEN acc
  ELSE LET seg == Head(segs)
           last == Len(segs) = 1
           shortened == IF acc = <<>> THEN acc ELSE SubSeq(acc, 1, Len(acc) - 1)
       IN  IF IsDoubleDot(seg)
           THEN ResolvePath(Tail(segs), IF last THEN Append(shortened, <<>>) ELSE shortened)
           ELSE IF IsSingleDot(seg)
                THEN ResolvePath(Tail(segs), IF last THEN Append(acc, <<>>) ELSE acc)
                ELSE ResolvePath(Tail(segs), Append(acc, seg))

\* Leading "/" and "//" after "scheme:" are skipped for a special scheme.
RECURSIVE SkipSlashes(_)
SkipSlashes(s) ==
  IF s # <<>> /\ Head(s) \in {"/", "//"} THEN SkipSlashes(Tail(s)) ELSE s

Failure == [ok |-> FALSE]

\* The URL without its query and fragment, and the authority in it.
HierPart(rest) == Before(Before(rest, "#"), "?")

Authority(rest) == Before(HierPart(rest), "/")

\* The parse of what follows "scheme:" and the slashes after it: fragment
\* from the first "#", query from the first "?", authority up to the first
\* "/", userinfo up to the last "@" of the authority, password from the
\* first ":" of the userinfo.  A special scheme needs a host.
ParseHierarchical(scheme, rest) ==
  IF Len(AfterLast(Authority(rest), "@")) # 1
  THEN Failure
  ELSE [ok |-> TRUE,
        scheme |-> scheme,
        username |-> Before(BeforeLast(Authority(rest), "@"), ":"),
        password |-> After(BeforeLast(Authority(rest), "@"), ":"),
        host |-> Lower(AfterLast(Authority(rest), "@")[1]),
        path |-> ResolvePath(Split(After(HierPart(rest), "/"), "/"), <<>>),
        hasQuery |-> IndexOf(Before(rest, "#"), "?") # 0,
        query |-> After(Before(rest, "#"), "?"),
        hasFragment |-> IndexOf(rest, "#") # 0,
        fragment |-> After(rest, "#")]

ParseURL(input) ==
  IF Len(input) < 2 \/ input[1] \notin SchemeTokens \/ input[2] # ":"
  THEN Failure
  ELSE ParseHierarchical(Lower(input[1]), SkipSlashes(SubSeq(input, 3, Len(input))))

\* url.pathname: "/" before every segment.
RECURSIVE PathName(_)
PathName(path) ==
  IF path = <<>> THEN <<>> ELSE <<"/">> \o Head(path) \o PathName(Tail(path))

\* url.protocol
Protocol(url) == <<url.scheme, ":">>

\* url.hash: "" for no fragment and for an empty one.
Hash(url) == IF url.hasFragment /\ url.fragment # <<>> THEN <<"#">> \o url.fragment ELSE <<>>

\* url.toString(): the URL serializer.
Href(url) ==
  <<url.scheme, ":", "//">>
  \o (IF url.username # <<>> \/ url.password # <<>>
      THEN url.username
           \o (IF url.password # <<>> THEN <<":">> \o url.password ELSE <<>>)
           \o <<"@">>
      ELSE <<>>)
  \o <<url.host>>
  \o PathName(url.path)
  \o (IF url.hasQuery THEN <<"?">> \o url.query ELSE <<>>)
  \o (IF url.hasFragment THEN <<"#">> \o url.fragment ELSE <<>>)

(***************************************************************************)
(* Outcomes of the validators: a returned value, or the thrown Error's     *)
(* message.                                                                *)
(***************************************************************************)
Throw(message) == [ok |-> FALSE, message |-> message]

Return(value) == [ok |-> TRUE, value |-> value]

MsgMalformedURL == "invalid_client_id: client_id must be a valid URL"

MsgSchemeNotHttps == "invalid_client_id: client_id URL MUST use https scheme"

MsgMissingPath == "invalid_client_id: client_id URL MUST contain a path component"

MsgDotSegment ==
  "invalid_client_id: client_id URL MUST NOT contain single-dot or double-dot path segments"

MsgHasFragment == "invalid_client_id: client_id URL MUST NOT contain a fragment component"

MsgHasUserinfo ==
  "invalid_client_id: client_id URL MUST NOT contain a username or password component"

\* validateClientIdUrl after new URL(raw) has returned url.
CheckClientIdUrl(url) ==
  IF Protocol(url) # <<"https", ":">> THEN Throw(MsgSchemeNotHttps)
  ELSE IF PathName(url.path) = <<>> \/ PathName(url.path) = <<"/">>
       THEN Throw(MsgMissingPath)
  ELSE IF \E i \in 1..Len(Split(PathName(url.path), "/")) :
            Split(PathName(url.path), "/")[i] \in {<<".">>, <<"..">>}
       THEN Throw(MsgDotSegment)
  ELSE IF Hash(url) # <<>> THEN Throw(MsgHasFragment)
  ELSE IF url.username # <<>> \/ url.password # <<>> THEN Throw(MsgHasUserinfo)
  ELSE Return(Href(url))

\* new URL(raw) throws on a string that is no absolute URL.
ParsedOrThrow(url) == IF ~url.ok THEN Throw(MsgMalformedURL) ELSE CheckClientIdUrl(url)

validateClientIdUrl(raw) == ParsedOrThrow(ParseURL(raw))

(***************************************************************************)
(* The metadata fetch.  A fetch settles with a network failure (the        *)
(* promise rejects) or with an HTTP response res: res.ok and the body, a   *)
(* JSON text that does not parse or the value it parses to.                *)
(***************************************************************************)
MsgNetworkError == "request to client_id URL failed"

MsgFetchFailed == "invalid_client: failed to fetch client metadata document"

MsgInvalidJson == "invalid_client: client metadata document is not valid JSON"

MsgNotAnObject == "invalid_client: client metadata document must be a JSON object"

MsgMissingClientId == "invalid_client: client metadata document MUST contain client_id"

MsgClientIdMismatch ==
  "invalid_client: client_id property in metadata document MUST match the document URL"

MsgForbiddenAuthMethod ==
  "invalid_client: token_endpoint_auth_method MUST NOT be a shared secret based method"

MsgSecretPresent == "invalid_client: client_secret MUST NOT be present in client metadata"

MsgSecretExpiryPresent ==
  "invalid_client: client_secret_expires_at MUST NOT be present in client metadata"

\* Object.prototype.hasOwnProperty.call(json, key): a JSON object has no
\* undefined members, so an absent key is the one that reads as undefined.
HasOwnProperty(json, key) == json[key].t # "undefined"

forbiddenAuthMethods ==
  {<<"client_secret_", "post">>, <<"client_secret_", "basic">>, <<"client_secret_", "jwt">>}

\* fetchAndValidateClientMetadata with the strict comparison of client_id
\* left out.
fetchAndValidateClientMetadata_NoMismatchCheck(clientIdUrl, res) ==
  IF res.kind = "reject" THEN Throw(MsgNetworkError)
  ELSE IF ~res.ok THEN Throw(MsgFetchFailed)
  ELSE IF res.body.t = "invalid" THEN Throw(MsgInvalidJson)
  ELSE IF res.body.t # "object" THEN Throw(MsgNotAnObject)
  ELSE LET json == res.body
       IN  IF ~HasOwnProperty(json, "client_id") THEN Throw(MsgMissingClientId)
           ELSE IF /\ Truthy(json.token_endpoint_auth_method)
                   /\ \/ \E m \in forbiddenAuthMethods : json.token_endpoint_auth_method = Str(m)
                      \/ StartsWith(JsString(json.token_endpoint_auth_method),
                                    <<"client_secret_">>)
                THEN Throw(MsgForbiddenAuthMethod)
           ELSE IF HasOwnProperty(json, "client_secret") THEN Throw(MsgSecretPresent)
           ELSE IF HasOwnProperty(json, "client_secret_expires_at")
                THEN Throw(MsgSecretExpiryPresent)
           ELSE Return(json)

\* fetchAndValidateClientMetadata that rejects only the three listed
\* shared-secret methods, not every client_secret_ value.
fetchAndValidateClientMetadata_NoPrefixCheck(clientIdUrl, res) ==
  IF res.kind = "reject" THEN Throw(MsgNetworkError)
  ELSE IF ~res.ok THEN Throw(MsgFetchFailed)
  ELSE IF res.body.t = "invalid" THEN Throw(MsgInvalidJson)
  ELSE IF res.body.t # "object" THEN Throw(MsgNotAnObject)
  ELSE LET json == res.body
       IN  IF ~HasOwnProperty(json, "client_id") THEN Throw(MsgMissingClientId)
           ELSE IF json.client_id # Str(clientIdUrl) THEN Throw(MsgClientIdMismatch)
           ELSE IF /\ Truthy(json.token_endpoint_auth_method)
                   /\ \E m \in forbiddenAuthMethods : json.token_endpoint_auth_method = Str(m)
                THEN Throw(MsgForbiddenAuthMethod)
           ELSE IF HasOwnProperty(json, "client_secret") THEN Throw(MsgSecretPresent)
           ELSE IF HasOwnProperty(json, "client_secret_expires_at")
                THEN Throw(MsgSecretExpiryPresent)
           ELSE Return(json)

\* fetchAndValidateClientMetadata that looks for client_secret before it
\* looks at token_endpoint_auth_method.
fetchAndValidateClientMetadata_SecretFirst(clientIdUrl, res) ==
  IF res.kind = "reject" THEN Throw(MsgNetworkError)
  ELSE IF ~res.ok THEN Throw(MsgFetchFailed)
  ELSE IF res.body.t = "invalid" THEN Throw(MsgInvalidJson)
  ELSE IF res.body.t # "object" THEN Throw(MsgNotAnObject)
  ELSE LET json == res.body
       IN  IF ~HasOwnProperty(json, "client_id") THEN Throw(MsgMissingClientId)
           ELSE IF json.client_id # Str(clientIdUrl) THEN Throw(MsgClientIdMismatch)
           ELSE IF HasOwnProperty(json, "client_secret") THEN Throw(MsgSecretPresent)
           ELSE IF /\ Truthy(json.token_endpoint_auth_method)
                   /\ \/ \E m \in forbiddenAuthMethods : json.token_endpoint_auth_method = Str(m)
                      \/ StartsWith(JsString(json.token_endpoint_auth_method),
                                    <<"client_secret_">>)
                THEN Throw(MsgForbiddenAuthMethod)
           ELSE IF HasOwnProperty(json, "client_secret_expires_at")
                THEN Throw(MsgSecretExpiryPresent)
           ELSE Return(json)

\* The part of fetchAndValidateClientMetadata after the awaited fetch has
\* settled with res.
fetchAndValidateClientMetadata(clientIdUrl, res) ==
  IF res.kind = "reject" THEN Throw(MsgNetworkError)
  ELSE IF ~res.ok THEN Throw(MsgFetchFailed)
  ELSE IF res.body.t = "invalid" THEN Throw(MsgInvalidJson)
  ELSE IF res.body.t # "object" THEN Throw(MsgNotAnObject)
  ELSE LET json == res.body
       IN  IF ~HasOwnProperty(json, "client_id") THEN Throw(MsgMissingClientId)
           ELSE IF json.client_id # Str(clientIdUrl) THEN Throw(MsgClientIdMismatch)
           ELSE IF /\ Truthy(json.token_endpoint_auth_method)
                   /\ \/ \E m \in forbiddenAuthMethods : json.token_endpoint_auth_method = Str(m)
                      \/ StartsWith(JsString(json.token_endpoint_auth_method),
                                    <<"client_secret_">>)
                THEN Throw(MsgForbiddenAuthMethod)
           ELSE IF HasOwnProperty(json, "client_secret") THEN Throw(MsgSecretPresent)
           ELSE IF HasOwnProperty(json, "client_secret_expires_at")
                THEN Throw(MsgSecretExpiryPresent)
           ELSE Return(json)

(***************************************************************************)
(* validateRedirectUri                                                     *)
(***************************************************************************)
MsgMissingRedirectUri == "invalid_request: redirect_uri is required"

MsgMissingRegisteredUris == "invalid_client: client metadata must include redirect_uris array"

MsgNoExactMatch ==
  "invalid_request: redirect_uri MUST exactly match one of the registered redirect_uris"

\* A redirect URI without the slash that ends it.
StripTrailingSlash(s) ==
  IF s # <<>> /\ s[Len(s)] = "/" THEN SubSeq(s, 1, Len(s) - 1) ELSE s

\* validateRedirectUri that tolerates a trailing slash.
validateRedirectUri_SlashTolerant(requestedRedirectUri, metadata) ==
  IF requestedRedirectUri = <<>> THEN Throw(MsgMissingRedirectUri)
  ELSE LET redirectUris == metadata.redirect_uris
       IN  IF redirectUris.t # "array" \/ Len(redirectUris.items) = 0
           THEN Throw(MsgMissingRegisteredUris)
           ELSE IF \E i \in 1..Len(redirectUris.items) :
                     /\ redirectUris.items[i].t = "string"
                     /\ StripTrailingSlash(redirectUris.items[i].s)
                          = StripTrailingSlash(requestedRedirectUri)
                THEN Return(Undefined)
                ELSE Throw(MsgNoExactMatch)

validateRedirectUri(requestedRedirectUri, metadata) ==
  IF requestedRedirectUri = <<>> THEN Throw(MsgMissingRedirectUri)
  ELSE LET redirectUris == metadata.redirect_uris
       IN  IF redirectUris.t # "array" \/ Len(redirectUris.items) = 0
           THEN Throw(MsgMissingRegisteredUris)
           ELSE IF \E i \in 1..Len(redirectUris.items) :
                     redirectUris.items[i] = Str(requestedRedirectUri)
                THEN Return(Undefined)
                ELSE Throw(MsgNoExactMatch)

(***************************************************************************)
(* url.searchParams.set(name, value) and the redirect target               *)
(***************************************************************************)
\* The name=value pairs of a query string; empty pieces are skipped.
PairOf(piece) ==
  IF IndexOf(piece, "=") = 0
  THEN [name |-> piece, value |-> <<>>]
  ELSE [name |-> Before(piece, "="), value |-> After(piece, "=")]

RECURSIVE ParsePairs(_)
ParsePairs(pieces) ==
  IF pieces = <<>>
  THEN <<>>
  ELSE IF Head(pieces) = <<>>
       THEN ParsePairs(Tail(pieces))
       ELSE <<PairOf(Head(pieces))>> \o ParsePairs(Tail(pieces))

\* The pairs with every pair called name removed.
RECURSIVE WithoutName(_, _)
WithoutName(pairs, name) ==
  IF pairs = <<>>
  THEN <<>>
  ELSE IF Head(pairs).name = name
       THEN WithoutName(Tail(pairs), name)
       ELSE <<Head(pairs)>> \o WithoutName(Tail(pairs), name)

\* set: the first pair called name takes the value and the others called
\* name are removed; with no such pair, the pair is appended.
FirstNamed(pairs, name) ==
  CHOOSE i \in 1..Len(pairs) : pairs[i].name = name /\ \A j \in 1..(i - 1) : pairs[j].name # name

SetPair(pairs, name, value) ==
  IF \E i \in 1..Len(pairs) : pairs[i].name = name
  THEN SubSeq(pairs, 1, FirstNamed(pairs, name) - 1)
       \o <<[name |-> name, value |-> value]>>
       \o WithoutName(SubSeq(pairs, FirstNamed(pairs, name) + 1, Len(pairs)), name)
  ELSE Append(pairs, [name |-> name, value |-> value])

RECURSIVE SerializePairs(_)
SerializePairs(pairs) ==
  IF pairs = <<>>
  THEN <<>>
  ELSE Head(pairs).name \o <<"=">> \o Head(pairs).value
       \o (IF Len(pairs) > 1 THEN <<"&">> ELSE <<>>)
       \o SerializePairs(Tail(pairs))

SearchParamsSet(url, name, value) ==
  [url EXCEPT !.hasQuery = TRUE,
              !.query = SerializePairs(SetPair(ParsePairs(Split(url.query, "&")), name, value))]

(***************************************************************************)
(* handleAuthorize                                                         *)
(***************************************************************************)
dummyCode == <<"cimd-demo-code">>

MsgClientIdRequired == "invalid_request: client_id is required"

MsgResponseTypeRequired == "invalid_request: response_type is required"

MsgUnsupportedResponseType ==
  "unsupported_response_type: only response_type=code is supported"

MsgInvalidURL == "Invalid URL"

NoResponse == [kind |-> "none"]

\* res.redirect(location)
Redirect(location) == [kind |-> "redirect", status |-> 302, location |-> location]

\* The catch block: every thrown Error becomes a 400 with error
\* "invalid_request" and the Error's message as the description.
ErrorResponse(message) ==
  [kind |-> "json", status |-> 400, error |-> "invalid_request",
   error_description |-> message]

\* handleAuthorize up to the fetch, with response_type not compared to
\* "code".
AuthorizeBeforeFetch_AnyResponseType(params) ==
  IF ~Truthy(params.client_id) THEN Throw(MsgClientIdRequired)
  ELSE IF ~Truthy(params.response_type) THEN Throw(MsgResponseTypeRequired)
  ELSE validateClientIdUrl(JsString(params.client_id))

\* handleAuthorize up to the fetch, fetching the client_id as supplied
\* without validating it.
AuthorizeBeforeFetch_FetchSupplied(params) ==
  IF ~Truthy(params.client_id) THEN Throw(MsgClientIdRequired)
  ELSE IF ~Truthy(params.response_type) THEN Throw(MsgResponseTypeRequired)
  ELSE IF params.response_type # Str(<<"code">>) THEN Throw(MsgUnsupportedResponseType)
  ELSE Return(JsString(params.client_id))

\* handleAuthorize up to the call of fetch: the parameter checks and
\* validateClientIdUrl.  Returns the URL to fetch, or throws.
AuthorizeBeforeFetch(params) ==
  IF ~Truthy(params.client_id) THEN Throw(MsgClientIdRequired)
  ELSE IF ~Truthy(params.response_type) THEN Throw(MsgResponseTypeRequired)
  ELSE IF params.response_type # Str(<<"code">>) THEN Throw(MsgUnsupportedResponseType)
  ELSE validateClientIdUrl(JsString(params.client_id))

\* if (state) url.searchParams.set("state", String(state))
WithState(url, state) ==
  IF Truthy(state) THEN SearchParamsSet(url, <<"state">>, JsString(state)) ELSE url

\* The redirect target built on the parsed redirect_uri: code and, when
\* state is truthy, state set as query parameters.
BuildTarget(url, params) ==
  IF ~url.ok
  THEN Throw(MsgInvalidURL)
  ELSE Return(Href(WithState(SearchParamsSet(url, <<"code">>, dummyCode), params.state)))

\* new URL(String(redirect_uri)) throws on an unparseable value.
RedirectTarget(params) == BuildTarget(ParseURL(JsString(params.redirect_uri)), params)

\* The end of handleAuthorize with new URL(String(redirect_uri)) outside the
\* try block: its exception is not turned into a response.
Responded_Uncaught(target) ==
  IF ~target.ok
  THEN [response |-> NoResponse, redirectChecked |-> TRUE]
  ELSE [response |-> Redirect(target.value), redirectChecked |-> TRUE]

\* handleAuthorize from the settled fetch on: the response, and whether
\* validateRedirectUri was called.
Responded(target) ==
  IF ~target.ok
  THEN [response |-> ErrorResponse(target.message), redirectChecked |-> TRUE]
  ELSE [response |-> Redirect(target.value), redirectChecked |-> TRUE]

AfterRedirectCheck(params, matched) ==
  IF ~matched.ok
  THEN [response |-> ErrorResponse(matched.message), redirectChecked |-> TRUE]
  ELSE Responded(RedirectTarget(params))

AfterMetadata(params, metadata) ==
  IF ~metadata.ok
  THEN [response |-> ErrorResponse(metadata.message), redirectChecked |-> FALSE]
  ELSE AfterRedirectCheck(params,
                          validateRedirectUri(JsString(params.redirect_uri), metadata.value))

AuthorizeAfterFetch(params, clientIdUrl, res) ==
  AfterMetadata(params, fetchAndValidateClientMetadata(clientIdUrl, res))

(***************************************************************************)
(* app.post("/token")                                                      *)
(***************************************************************************)
dummyAccessToken == <<"cimd-demo-access-token">>

\* The /token handler with the code compared before the grant type.
TokenHandler_CodeFirst(body) ==
  IF body.code # Str(dummyCode)
  THEN [status |-> 400, error |-> "invalid_grant"]
  ELSE IF body.grant_type # Str(<<"authorization_code">>)
       THEN [status |-> 400, error |-> "unsupported_grant_type"]
       ELSE [status |-> 200, access_token |-> dummyAccessToken,
             token_type |-> "Bearer", expires_in |-> 3600]

TokenHandler(body) ==
  IF body.grant_type # Str(<<"authorization_code">>)
  THEN [status |-> 400, error |-> "unsupported_grant_type"]
  ELSE IF body.code # Str(dummyCode)
       THEN [status |-> 400, error |-> "invalid_grant"]
       ELSE [status |-> 200, access_token |-> dummyAccessToken,
             token_type |-> "Bearer", expires_in |-> 3600]

(***************************************************************************)
(* client-app.js: app.get("/callback")                                     *)
(***************************************************************************)
\* res.status(status).send(text)
Text(status, text) == [kind |-> "text", status |-> status, text |-> text]

\* The page that shows the code, the state and the token response.
Page(code, state, tokenJson) ==
  [kind |-> "html", status |-> 200, code |-> JsString(code),
   state |-> IF Truthy(state) THEN JsString(state) ELSE <<"(none)">>,
   tokenJson |-> tokenJson]

\* The outcome of the handler up to its first await: it has answered, or it
\* posts body to the token endpoint.
Answered(response) == [answered |-> TRUE, response |-> response]

Exchange(body) == [answered |-> FALSE, body |-> body]

\* new URLSearchParams({grant_type: "authorization_code", code: String(code)})
TokenRequestBody(code) ==
  [grant_type |-> Str(<<"authorization_code">>), code |-> Str(JsString(code))]

\* The /callback handler without the test of the error parameter.
CallbackBeforeFetch_ErrorIgnored(query) ==
  IF ~Truthy(query.code)
  THEN Answered(Text(400, <<"Missing authorization code">>))
  ELSE Exchange(TokenRequestBody(query.code))

\* The /callback handler up to the call of fetch.
CallbackBeforeFetch(query) ==
  IF Truthy(query.error)
  THEN Answered(Text(400, <<"Authorization error: ">> \o JsString(query.error) \o <<" - ">>
                          \o (IF Truthy(query.error_description)
                              THEN JsString(query.error_description)
                              ELSE <<"no description">>)))
  ELSE IF ~Truthy(query.code)
       THEN Answered(Text(400, <<"Missing authorization code">>))
       ELSE Exchange(TokenRequestBody(query.code))

\* The /callback handler from the settled fetch on: a rejected fetch and a
\* body that is not JSON end in the catch block.
CallbackAfterFetch(query, tokenRes) ==
  IF tokenRes.kind = "reject"
  THEN Text(500, <<"Token request failed: ", "fetch failed">>)
  ELSE IF tokenRes.body.t = "invalid"
       THEN Text(500, <<"Token request failed: ", "invalid json">>)
       ELSE Page(query.code, query.state, tokenRes.body)

(***************************************************************************)
(* Bounds and inputs                                                       *)
(***************************************************************************)
\* Authorize requests in one run.
MaxReqs == 2

\* Token requests in one run.
MaxTokens == 2

\* The clock stops here (minutes).
MaxNow == 12

\* Minutes between two readings of the clock.
TickStep == 6

\* Path segments of a probed client_id.
MaxSegs == 3

\* Lifetime of an authorization code in minutes, as documented.
TTL == 10

Reqs == 1..MaxReqs

Origin(scheme, host) == <<scheme, ":", "//", host>>

GoodClientId == Origin("https", "a.test") \o <<"/", "md">>

UpperClientId == Origin("HTTPS", "A.TEST") \o <<"/", "md">>

DotClientId == Origin("https", "a.test") \o <<"/", "x", "/", "..", "/", "md">>

HttpClientId == Origin("http", "a.test") \o <<"/", "md">>

OtherClientId == Origin("https", "a.test") \o <<"/", "other">>

CB == Origin("http", "a.test") \o <<"/", "cb">>

CBSlash == CB \o <<"/">>

CBUpper == Origin("http", "A.TEST") \o <<"/", "cb">>

CBRelative == <<"cb">>

\* The credential fields of the login form: none, the demonstration
\* credential admin/admin, a wrong password.
Credentials ==
  {[username |-> Undefined, password |-> Undefined],
   [username |-> Str(<<"admin">>), password |-> Str(<<"admin">>)],
   [username |-> Str(<<"admin">>), password |-> Str(<<"wrong">>)]}

ParamBags(clientIds, redirectUris, responseTypes, states) ==
  {[client_id |-> c, redirect_uri |-> u, response_type |-> t, state |-> s,
    username |-> k.username, password |-> k.password] :
     c \in clientIds, u \in redirectUris, t \in responseTypes, s \in states,
     k \in Credentials}

NoParams ==
  [client_id |-> Undefined, redirect_uri |-> Undefined, response_type |-> Undefined,
   state |-> Undefined, username |-> Undefined, password |-> Undefined]

\* The parameter bags of the runs with concurrent requests and a clock.
LifeParams ==
  ParamBags({Str(GoodClientId)}, {Str(CB)}, {Str(<<"code">>), Str(<<"token">>)}, {Undefined})

\* The parameter bags of the runs of one authorize request.
FlowParams ==
  ParamBags({Undefined, Str(<<>>), Str(GoodClientId), Str(UpperClientId),
             Str(DotClientId), Str(HttpClientId)},
            {Undefined, Str(<<>>), Str(CB), Str(CBSlash), Str(CBUpper), Str(CBRelative)},
            {Undefined, Str(<<"code">>), Str(<<"token">>)},
            {Undefined, Str(<<>>), Str(<<"xyz">>)})

JsonObject(clientId, authMethod, secret, expiry, redirectUris) ==
  [t |-> "object", client_id |-> clientId, token_endpoint_auth_method |-> authMethod,
   client_secret |-> secret, client_secret_expires_at |-> expiry,
   redirect_uris |-> redirectUris]

Http(ok, body) == [kind |-> "http", ok |-> ok, body |-> body]

Rejected == [kind |-> "reject"]

GoodBody == JsonObject(Str(GoodClientId), Str(<<"none">>), Undefined, Undefined, Arr(<<Str(CB)>>))

LifeFetches ==
  {Rejected, Http(TRUE, GoodBody),
   Http(TRUE, JsonObject(Str(GoodClientId), Undefined, Str(<<"s3cret">>), Undefined,
                         Arr(<<Str(CB)>>)))}

FlowObjects ==
  {JsonObject(c, a, s, e, u) :
     c \in {Undefined, Str(GoodClientId), Str(UpperClientId), Str(OtherClientId)},
     a \in {Undefined, Str(<<>>), Str(<<"none">>), Str(<<"client_secret_", "basic">>),
            Str(<<"client_secret_", "x">>)},
     s \in {Undefined, Str(<<"s3cret">>)},
     e \in {Undefined, Num(0)},
     u \in {Undefined, Str(CB), Arr(<<>>), Arr(<<Str(CB)>>),
            Arr(<<Str(CBSlash), Str(CBUpper)>>), Arr(<<Num(0), Str(CBRelative)>>),
            Arr(<<Str(<<"undefined">>)>>)}}

FlowFetches ==
  {Rejected, Http(FALSE, GoodBody), Http(FALSE, [t |-> "invalid"])}
  \cup {Http(TRUE, b) : b \in {[t |-> "invalid"], [t |-> "null"], Arr(<<>>)} \cup FlowObjects}

TokenBodies ==
  {[grant_type |-> g, code |-> c] :
     g \in {Str(<<"authorization_code">>), Str(<<"refresh_token">>)},
     c \in {Str(dummyCode), Str(<<"never-issued">>)}}

\* The JSON value that res.json(payload) of the token endpoint delivers.
TokenJson(payload) == [t |-> "object", json |-> payload]

\* The query strings of the callback requests.
CallbackQueries ==
  [code : {Undefined, Str(<<>>), Str(dummyCode), Str(<<"never-issued">>),
           Arr(<<Str(dummyCode), Str(<<"never-issued">>)>>)},
   state : {Undefined, Str(<<"xyz">>)},
   error : {Undefined, Str(<<>>), Str(<<"access_denied">>)},
   error_description : {Undefined, Str(<<"denied">>)}]

NoQuery ==
  [code |-> Undefined, state |-> Undefined, error |-> Undefined,
   error_description |-> Undefined]

FailedTokenFetches == {Rejected, Http(FALSE, [t |-> "invalid"])}

\* The path tokens of a list of segments ("" is the empty segment).
RECURSIVE PathOf(_)
PathOf(segs) ==
  IF segs = <<>>
  THEN <<>>
  ELSE <<"/">> \o (IF Head(segs) = "" THEN <<>> ELSE <<Head(segs)>>) \o PathOf(Tail(segs))

SegLists == UNION {[1..n -> {"md", ".", "..", ""}] : n \in 0..MaxSegs}

\* The client_id strings probed: every combination of scheme, userinfo,
\* path and fragment, and strings that are no absolute URL.
RawClientIds ==
  {<<scheme, ":", "//">> \o userinfo \o <<"a.test">> \o PathOf(segs) \o fragment :
     scheme \in {"https", "http"},
     userinfo \in {<<>>, <<"user", "@">>, <<"user", ":", "pw", "@">>},
     segs \in SegLists,
     fragment \in {<<>>, <<"#">>, <<"#", "frag">>}}
  \cup {<<>>, <<"a.test", "/", "md">>, <<"/", "md">>, <<"https", ":", "//">>,
        UpperClientId, Origin("https", "a.test") \o <<"/", "%2e", "/", "md">>}

(***************************************************************************)
(* State                                                                   *)
(*   reqs[r]  one /authorize request: where its handler stands, its        *)
(*            method (GET or POST), the parameter bag it carries, the URL  *)
(*            it fetches, the number of fetch calls it made, the settled   *)
(*            fetch, whether validateRedirectUri was called, its response  *)
(*            and, for a redirect, the time of it                          *)
(*   tokens   the /token requests handled so far, each with its time and   *)
(*            its response                                                 *)
(*   now      the clock, in minutes                                        *)
(*   probe    one call of validateClientIdUrl: the argument, the outcome   *)
(*   cb       one /callback request of the client app: where its handler   *)
(*            stands, its query, the token requests it sent, its response  *)
(***************************************************************************)
IdleReq ==
  [pc |-> "idle", method |-> "GET", params |-> NoParams, url |-> <<>>, fetches |-> 0,
   res |-> Rejected,
   redirectChecked |-> FALSE, response |-> NoResponse, issuedAt |-> 0]

IdleCallback == [pc |-> "idle", query |-> NoQuery, sent |-> <<>>, response |-> NoResponse]

NoProbe == [raw |-> <<>>, done |-> FALSE, result |-> Throw("")]

Init ==
  /\ reqs = [r \in Reqs |-> IdleReq]
  /\ tokens = <<>>
  /\ now = 0
  /\ probe = NoProbe
  /\ cb = IdleCallback

\* The request after handleAuthorize has run to its first await.
Entered(req, params, before) ==
  IF before.ok
  THEN [req EXCEPT !.pc = "fetching", !.params = params, !.url = before.value,
                   !.fetches = @ + 1]
  ELSE [req EXCEPT !.pc = "done", !.params = params,
                   !.response = ErrorResponse(before.message)]

\* The request after handleAuthorize has run to its end.
Settled(req, res, after) ==
  [req EXCEPT !.pc = "done", !.res = res, !.redirectChecked = after.redirectChecked,
              !.response = after.response,
              !.issuedAt = IF after.response.kind = "redirect" THEN now ELSE 0]

Methods == {"GET", "POST"}

\* The HTTP request: a GET carries the parameter bag in its query string
\* and has no body, a POST carries it in its form body.
HttpRequest(method, bag) ==
  IF method = "GET"
  THEN [method |-> "GET", query |-> bag, body |-> Undefined]
  ELSE [method |-> "POST", query |-> NoParams, body |-> bag]

\* The routes with the bag always read from the query string.
RouteParams_QueryOnly(req) == req.query

\* The params argument of handleAuthorize: req.query in app.get, and
\* req.body || {} in app.post.
RouteParams(req) ==
  IF req.method = "GET"
  THEN req.query
  ELSE IF req.body = Undefined THEN NoParams ELSE req.body

\* The params that the handler of a request works on.
HandlerParams(req) == RouteParams(HttpRequest(req.method, req.params))

\* app.get/app.post("/authorize") call handleAuthorize, which runs to its
\* first await: it answers 400 at once or calls fetch and suspends.
Authorize(r, method, params) ==
  /\ reqs[r].pc = "idle"
  /\ reqs' = [reqs EXCEPT ![r] =
                Entered([@ EXCEPT !.method = method], params,
                        AuthorizeBeforeFetch(RouteParams(HttpRequest(method, params))))]
  /\ UNCHANGED <<tokens, now, probe, cb>>

\* The fetch settles and handleAuthorize runs to its end.
FetchSettled(r, res) ==
  /\ reqs[r].pc = "fetching"
  /\ reqs' = [reqs EXCEPT ![r] =
                Settled(@, res, AuthorizeAfterFetch(HandlerParams(reqs[r]), reqs[r].url, res))]
  /\ UNCHANGED <<tokens, now, probe, cb>>

\* app.post("/token"): the handler is synchronous.
Token(body) ==
  /\ Len(tokens) < MaxTokens
  /\ tokens' = Append(tokens, [body |-> body, at |-> now, response |-> TokenHandler(body)])
  /\ UNCHANGED <<reqs, now, probe, cb>>

\* Time passes.
Tick ==
  /\ now + TickStep <= MaxNow
  /\ now' = now + TickStep
  /\ UNCHANGED <<reqs, tokens, probe, cb>>

Next ==
  \/ \E r \in Reqs, method \in Methods, params \in LifeParams : Authorize(r, method, params)
  \/ \E r \in Reqs, res \in LifeFetches : FetchSettled(r, res)
  \/ \E body \in TokenBodies : Token(body)
  \/ Tick

Spec == Init /\ [][Next]_vars

\* One authorize request, over every fetch outcome: a GET with every
\* parameter bag, or a POST with one of the bags of Next.
NextFlow ==
  \/ \E params \in FlowParams : Authorize(1, "GET", params)
  \/ \E params \in LifeParams : Authorize(1, "POST", params)
  \/ \E res \in FlowFetches : FetchSettled(1, res)

SpecFlow == Init /\ [][NextFlow]_vars

\* Concurrent authorize requests by both transports, without the token
\* endpoint and the clock.
NextTransport ==
  \/ \E r \in Reqs, method \in Methods, params \in LifeParams : Authorize(r, method, params)
  \/ \E r \in Reqs, res \in LifeFetches : FetchSettled(r, res)

SpecTransport == Init /\ [][NextTransport]_vars

\* One authorize request, the token endpoint and the clock.
NextExchange ==
  \/ \E method \in Methods, params \in LifeParams : Authorize(1, method, params)
  \/ \E res \in LifeFetches : FetchSettled(1, res)
  \/ \E body \in TokenBodies : Token(body)
  \/ Tick

SpecExchange == Init /\ [][NextExchange]_vars

\* The /callback request after its handler has run to its first await.
CallbackEntered(req, query, before) ==
  IF before.answered
  THEN [req EXCEPT !.pc = "done", !.query = query, !.response = before.response]
  ELSE [req EXCEPT !.pc = "exchanging", !.query = query, !.sent = Append(@, before.body)]

\* GET /callback of the client app arrives.
Callback(query) ==
  /\ cb.pc = "idle"
  /\ cb' = CallbackEntered(cb, query, CallbackBeforeFetch(query))
  /\ UNCHANGED <<reqs, tokens, now, probe>>

\* The token endpoint handles the request that the callback sent, and the
\* callback shows its JSON answer.
TokenServed ==
  /\ cb.pc = "exchanging"
  /\ Len(tokens) < MaxTokens
  /\ tokens' = Append(tokens, [body |-> cb.sent[Len(cb.sent)], at |-> now,
                               response |-> TokenHandler(cb.sent[Len(cb.sent)])])
  /\ cb' = [cb EXCEPT
              !.pc = "done",
              !.response =
                CallbackAfterFetch(cb.query,
                                   Http(TokenHandler(cb.sent[Len(cb.sent)]).status = 200,
                                        TokenJson(TokenHandler(cb.sent[Len(cb.sent)]))))]
  /\ UNCHANGED <<reqs, now, probe>>

\* The token request fails on the way: the fetch is rejected, or its answer
\* has a body that is not JSON.
TokenFailed(tokenRes) ==
  /\ cb.pc = "exchanging"
  /\ cb' = [cb EXCEPT !.pc = "done", !.response = CallbackAfterFetch(cb.query, tokenRes)]
  /\ UNCHANGED <<reqs, tokens, now, probe>>

\* One callback request of the client app against the token endpoint.
NextCallback ==
  \/ \E query \in CallbackQueries : Callback(query)
  \/ TokenServed
  \/ \E tokenRes \in FailedTokenFetches : TokenFailed(tokenRes)

SpecCallback == Init /\ [][NextCallback]_vars

\* One call of validateClientIdUrl, over every probed string.
InitProbe ==
  /\ reqs = [r \in Reqs |-> IdleReq]
  /\ tokens = <<>>
  /\ now = 0
  /\ probe \in {[raw |-> raw, done |-> FALSE, result |-> Throw("")] : raw \in RawClientIds}
  /\ cb = IdleCallback

Validate ==
  /\ ~probe.done
  /\ probe' = [probe EXCEPT !.done = TRUE, !.result = validateClientIdUrl(probe.raw)]
  /\ UNCHANGED <<reqs, tokens, now, cb>>

NextProbe == Validate

SpecProbe == InitProbe /\ [][NextProbe]_vars

(***************************************************************************)
(* Observations the properties are stated on                               *)
(***************************************************************************)
IsRedirect(r) == reqs[r].response.kind = "redirect"

IsError(r) == reqs[r].response.kind = "json" /\ reqs[r].response.status = 400

\* The value of the query parameter called name in a URL string.
QueryValue(location, name) ==
  ParsePairs(Split(ParseURL(location).query, "&"))[
    FirstNamed(ParsePairs(Split(ParseURL(location).query, "&")), name)].value

\* The code that the redirect of request r delivers.
IssuedCode(r) == QueryValue(reqs[r].response.location, <<"code">>)

TokenIds == 1..Len(tokens)

TokenSucceeded(i) == tokens[i].response.status = 200

\* The successful token requests that carried code.
Redemptions(code) == {i \in TokenIds : tokens[i].body.code = Str(code) /\ TokenSucceeded(i)}

\* The settled fetch of request r delivered a JSON object with status 2xx.
FetchedObject(r) ==
  /\ reqs[r].pc = "done"
  /\ reqs[r].res.kind = "http"
  /\ reqs[r].res.ok
  /\ reqs[r].res.body.t = "object"

\* A shared-secret token_endpoint_auth_method: client_secret_post,
\* client_secret_basic, client_secret_jwt or any client_secret_ value.
IsSharedSecretMethod(v) == v.t = "string" /\ StartsWith(v.s, <<"client_secret_">>)

(***************************************************************************)
(* Properties                                                              *)
(***************************************************************************)
\* C1: a code that /authorize issued once is redeemed at most once: of the
\* /token requests that carry it, no two succeed.
C1_SingleUse ==
  \A r \in Reqs :
    (/\ IsRedirect(r)
     /\ \A q \in Reqs \ {r} : IsRedirect(q) => IssuedCode(q) # IssuedCode(r))
    => Cardinality(Redemptions(IssuedCode(r))) <= 1

\* C2: a /token request that carries a code whose every issuance is older
\* than the 10-minute TTL does not succeed: it fails with invalid_grant.
C2_ExpiredNeverSucceeds ==
  \A i \in TokenIds :
    (/\ \E r \in Reqs : IsRedirect(r) /\ tokens[i].body.code = Str(IssuedCode(r))
     /\ \A r \in Reqs :
          (IsRedirect(r) /\ tokens[i].body.code = Str(IssuedCode(r)))
          => tokens[i].at - reqs[r].issuedAt > TTL)
    => (~TokenSucceeded(i) /\ tokens[i].response.error = "invalid_grant")

\* C3: a redirect that delivers a code is sent only for a request that
\* submitted the demonstration credential admin/admin; a request without
\* credentials gets no code.
C3_CodeOnlyAfterLogin ==
  \A r \in Reqs :
    IsRedirect(r)
    => (/\ reqs[r].params.username = Str(<<"admin">>)
        /\ reqs[r].params.password = Str(<<"admin">>))

\* C4: a redirect is sent only when the requested redirect_uri is, as a
\* string, equal to an entry of redirect_uris of the metadata document
\* fetched for that request.
C4_RedirectOnlyToRegistered ==
  \A r \in Reqs :
    IsRedirect(r)
    => (/\ FetchedObject(r)
        /\ reqs[r].res.body.redirect_uris.t = "array"
        /\ \E i \in 1..Len(reqs[r].res.body.redirect_uris.items) :
             reqs[r].res.body.redirect_uris.items[i] = reqs[r].params.redirect_uri)

\* C4 witness: a redirect to the one registered URI that ends in a slash.
C4_Witness ==
  /\ IsRedirect(1)
  /\ reqs[1].params.redirect_uri = Str(CBSlash)
  /\ reqs[1].res.body.redirect_uris = Arr(<<Str(CBSlash), Str(CBUpper)>>)

\* C5: /token succeeds only for a code that a redirect of /authorize has
\* delivered; a code that was never issued fails with invalid_grant, also
\* before any authorize request.
C5_OnlyIssuedCodes ==
  \A i \in TokenIds :
    TokenSucceeded(i)
    => \E r \in Reqs :
         /\ IsRedirect(r)
         /\ tokens[i].body.code = Str(IssuedCode(r))
         /\ reqs[r].issuedAt <= tokens[i].at

\* C6: a request whose response_type is not "code" never calls fetch: it
\* is answered with an error and its fetch count is 0.
C6_NoFetchUnlessCode ==
  \A r \in Reqs :
    (reqs[r].pc # "idle" /\ reqs[r].params.response_type # Str(<<"code">>))
    => (reqs[r].pc = "done" /\ reqs[r].fetches = 0 /\ IsError(r))

\* C6 witness: response_type=token with a valid client_id, answered
\* without a fetch.
C6_Witness ==
  /\ reqs[1].pc = "done"
  /\ reqs[1].params.response_type = Str(<<"token">>)
  /\ reqs[1].params.client_id = Str(GoodClientId)
  /\ reqs[1].fetches = 0

\* C7: a request with a client_id and a response_type other than "code"
\* is answered with the error category unsupported_response_type.
C7_UnsupportedResponseTypeCategory ==
  \A r \in Reqs :
    (/\ reqs[r].pc = "done"
     /\ Truthy(reqs[r].params.client_id)
     /\ Truthy(reqs[r].params.response_type)
     /\ reqs[r].params.response_type # Str(<<"code">>))
    => (IsError(r) /\ reqs[r].response.error = "unsupported_response_type")

\* C8: when the fetched document carries a shared-secret
\* token_endpoint_auth_method, the request is answered 400 invalid_request
\* by the client validation, validateRedirectUri is not called, and the
\* description is one the client validation gives.
C8_ClientBeforeRedirect ==
  \A r \in Reqs :
    (/\ FetchedObject(r)
     /\ IsSharedSecretMethod(reqs[r].res.body.token_endpoint_auth_method))
    => (/\ IsError(r)
        /\ reqs[r].response.error = "invalid_request"
        /\ ~reqs[r].redirectChecked
        /\ reqs[r].response.error_description
             \in {MsgMissingClientId, MsgClientIdMismatch, MsgForbiddenAuthMethod})

\* C8 witness: an otherwise valid document with the method
\* client_secret_x and the requested redirect_uri registered is rejected
\* for the method.
C8_Witness ==
  /\ FetchedObject(1)
  /\ reqs[1].res.body.token_endpoint_auth_method = Str(<<"client_secret_", "x">>)
  /\ reqs[1].res.body.client_id = Str(reqs[1].url)
  /\ reqs[1].res.body.client_secret = Undefined
  /\ reqs[1].res.body.redirect_uris = Arr(<<Str(CB)>>)
  /\ reqs[1].params.redirect_uri = Str(CB)
  /\ reqs[1].response.error_description = MsgForbiddenAuthMethod

\* C9: a fetched JSON object whose client_id is present and differs from
\* the URL it was fetched from is rejected with the client_id mismatch
\* reason, whatever its other fields.
C9_ClientIdMismatchRejected ==
  \A r \in Reqs :
    (/\ FetchedObject(r)
     /\ HasOwnProperty(reqs[r].res.body, "client_id")
     /\ reqs[r].res.body.client_id # Str(reqs[r].url))
    => reqs[r].response = ErrorResponse(MsgClientIdMismatch)

\* C9 witness: the document repeats the client_id as the client sent it,
\* which is not the URL that was fetched, and breaks the other rules too.
C9_Witness ==
  /\ FetchedObject(1)
  /\ reqs[1].params.client_id = Str(UpperClientId)
  /\ reqs[1].res.body.client_id = Str(UpperClientId)
  /\ reqs[1].res.body.token_endpoint_auth_method = Str(<<"client_secret_", "basic">>)
  /\ reqs[1].res.body.client_secret # Undefined
  /\ reqs[1].res.body.redirect_uris = Undefined
  /\ reqs[1].response = ErrorResponse(MsgClientIdMismatch)

\* C10: the validator accepts no client_id whose path, as supplied, has a
\* segment "." or "..".
C10_NoDotSegmentAccepted ==
  (probe.done /\ probe.result.ok)
  => \A i \in 1..Len(probe.raw) : probe.raw[i] \notin {".", ".."}

\* The code is pending when token request j arrives: a redirect delivered
\* it no more than TTL minutes before, and no earlier token request
\* redeemed it.
PendingAt(code, j) ==
  /\ \E r \in Reqs :
       /\ IsRedirect(r)
       /\ IssuedCode(r) = code
       /\ reqs[r].issuedAt <= tokens[j].at
       /\ tokens[j].at - reqs[r].issuedAt <= TTL
  /\ \A i \in Redemptions(code) : i >= j

\* C11: a /token request whose grant_type is not authorization_code fails
\* with unsupported_grant_type whatever its code, and a later well-formed
\* request redeems the code it carried if that code is pending.
C11_UnsupportedGrantKeepsCode ==
  \A i \in TokenIds :
    tokens[i].body.grant_type # Str(<<"authorization_code">>)
    => (/\ tokens[i].response.status = 400
        /\ tokens[i].response.error = "unsupported_grant_type"
        /\ \A j \in TokenIds :
             (/\ j > i
              /\ tokens[j].body.grant_type = Str(<<"authorization_code">>)
              /\ tokens[j].body.code = tokens[i].body.code
              /\ tokens[j].body.code.t = "string"
              /\ PendingAt(tokens[j].body.code.s, j))
             => TokenSucceeded(j))

\* C11 witness: the issued code is carried by a refresh_token request,
\* which fails, and then by an authorization_code request, which succeeds.
C11_Witness ==
  /\ Len(tokens) = 2
  /\ tokens[1].body = [grant_type |-> Str(<<"refresh_token">>), code |-> Str(dummyCode)]
  /\ tokens[1].response.error = "unsupported_grant_type"
  /\ tokens[2].body = [grant_type |-> Str(<<"authorization_code">>), code |-> Str(dummyCode)]
  /\ PendingAt(dummyCode, 2)
  /\ TokenSucceeded(2)

\* The query parameters of a URL string, and whether one is called name.
QueryPairs(location) == ParsePairs(Split(ParseURL(location).query, "&"))

HasQueryParam(location, name) ==
  \E i \in 1..Len(QueryPairs(location)) : QueryPairs(location)[i].name = name

\* Two URL strings name the same scheme, host and path.
SameTarget(a, b) ==
  /\ ParseURL(a).ok
  /\ ParseURL(b).ok
  /\ ParseURL(a).scheme = ParseURL(b).scheme
  /\ ParseURL(a).host = ParseURL(b).host
  /\ ParseURL(a).path = ParseURL(b).path

\* C12: the success redirect targets the requested redirect_uri, carries
\* the code as the query parameter code, and carries the query parameter
\* state exactly when the request supplied state, with the supplied value.
C12_RedirectCarriesCodeAndState ==
  \A r \in Reqs :
    IsRedirect(r)
    => (/\ SameTarget(reqs[r].response.location, JsString(reqs[r].params.redirect_uri))
        /\ HasQueryParam(reqs[r].response.location, <<"code">>)
        /\ IssuedCode(r) = dummyCode
        /\ HasQueryParam(reqs[r].response.location, <<"state">>)
             <=> reqs[r].params.state # Undefined
        /\ reqs[r].params.state # Undefined
             => QueryValue(reqs[r].response.location, <<"state">>) = reqs[r].params.state.s)

\* C13: two distinct successful /token exchanges return different
\* access_token values.
C13_AccessTokensUnique ==
  \A i \in TokenIds, j \in TokenIds :
    (i # j /\ TokenSucceeded(i) /\ TokenSucceeded(j))
    => tokens[i].response.access_token # tokens[j].response.access_token

CheckReasons ==
  <<MsgFetchFailed, MsgInvalidJson, MsgNotAnObject, MsgMissingClientId, MsgClientIdMismatch,
    MsgForbiddenAuthMethod, MsgSecretPresent, MsgSecretExpiryPresent>>

IsDocument(res) == res.ok /\ res.body.t = "object"

Fails(k, url, res) ==
  CASE k = 1 -> ~res.ok
    [] k = 2 -> res.body.t = "invalid"
    [] k = 3 -> res.body.t \notin {"invalid", "object"}
    [] k = 4 -> IsDocument(res) /\ res.body.client_id = Undefined
    [] k = 5 -> IsDocument(res) /\ res.body.client_id # Str(url)
    [] k = 6 -> IsDocument(res) /\ IsSharedSecretMethod(res.body.token_endpoint_auth_method)
    [] k = 7 -> IsDocument(res) /\ res.body.client_secret # Undefined
    [] k = 8 -> IsDocument(res) /\ res.body.client_secret_expires_at # Undefined

FailingChecks(url, res) == {k \in 1..Len(CheckReasons) : Fails(k, url, res)}

FirstFailing(url, res) ==
  CHOOSE k \in FailingChecks(url, res) : \A j \in FailingChecks(url, res) : k <= j

\* C15: when the fetch of a request answers, the request is rejected with
\* the reason of the first check, in the order FetchFailed, InvalidJson,
\* NotAnObject, MissingClientId, ClientIdMismatch, ForbiddenAuthMethod,
\* SecretPresent, SecretExpiryPresent, that the response fails; the document
\* is returned, and the redirect URI examined, only when no check fails.
C15_FirstFailingCheckReported ==
  \A r \in Reqs :
    (reqs[r].pc = "done" /\ reqs[r].fetches = 1 /\ reqs[r].res.kind = "http")
      => IF FailingChecks(reqs[r].url, reqs[r].res) = {}
         THEN reqs[r].redirectChecked
         ELSE /\ ~reqs[r].redirectChecked
              /\ reqs[r].response
                   = ErrorResponse(CheckReasons[FirstFailing(reqs[r].url, reqs[r].res)])

\* A document that fails the last three checks at once is rejected for its
\* token_endpoint_auth_method.
C15_Witness ==
  /\ reqs[1].pc = "done"
  /\ reqs[1].fetches = 1
  /\ reqs[1].res.kind = "http"
  /\ FailingChecks(reqs[1].url, reqs[1].res) = {6, 7, 8}
  /\ reqs[1].response = ErrorResponse(MsgForbiddenAuthMethod)

\* The client_id that request r supplied is a string with a path segment
\* "." or "..".
SuppliedDotSegment(r) ==
  /\ reqs[r].params.client_id.t = "string"
  /\ \E i \in 1..Len(reqs[r].params.client_id.s) :
       reqs[r].params.client_id.s[i] \in {".", ".."}

\* C16: an authorize request whose client_id, as supplied, has a path
\* segment "." or ".." never reaches the metadata fetch: it is rejected with
\* the dot-segment reason.
C16_DotSegmentNeverFetched ==
  \A r \in Reqs :
    (reqs[r].pc # "idle" /\ SuppliedDotSegment(r)
       /\ reqs[r].params.response_type = Str(<<"code">>))
    => /\ reqs[r].fetches = 0
       /\ reqs[r].response = ErrorResponse(MsgDotSegment)

\* C17: an authorize request without a redirect_uri (absent or the empty
\* string) whose client_id and metadata document are valid is rejected with
\* the reason "redirect_uri is required".
C17_MissingRedirectUriReported ==
  \A r \in Reqs :
    (/\ reqs[r].pc = "done"
     /\ reqs[r].redirectChecked
     /\ reqs[r].params.redirect_uri \in {Undefined, Str(<<>>)})
    => reqs[r].response = ErrorResponse(MsgMissingRedirectUri)

\* Token request i asks to redeem a code of which every issuance is older
\* than the TTL when it arrives.
RedeemsExpired(i) ==
  /\ tokens[i].body.grant_type = Str(<<"authorization_code">>)
  /\ \E r \in Reqs : IsRedirect(r) /\ tokens[i].body.code = Str(IssuedCode(r))
  /\ \A r \in Reqs :
       (IsRedirect(r) /\ tokens[i].body.code = Str(IssuedCode(r)))
       => tokens[i].at - reqs[r].issuedAt > TTL

\* C18: the redeem of an expired code removes it: every later /token
\* request that carries the same code fails with invalid_grant.
C18_ExpiredRedeemRemovesCode ==
  \A i, j \in TokenIds :
    (/\ i < j
     /\ RedeemsExpired(i)
     /\ tokens[j].body = tokens[i].body)
    => tokens[j].response = [status |-> 400, error |-> "invalid_grant"]

\* Request r submitted a username and a password that are not the
\* demonstration credential admin/admin.
FailedLogin(r) ==
  /\ reqs[r].params.username # Undefined
  /\ reqs[r].params.password # Undefined
  /\ ~(/\ reqs[r].params.username = Str(<<"admin">>)
       /\ reqs[r].params.password = Str(<<"admin">>))

\* C19: a request that submitted a wrong credential is answered with no
\* redirect and issues no code.
C19_FailedLoginIssuesNoCode ==
  \A r \in Reqs : (reqs[r].pc = "done" /\ FailedLogin(r)) => ~IsRedirect(r)

\* The verdict of the validator on the client_id that request r supplied.
ClientIdVerdict(r) == validateClientIdUrl(JsString(reqs[r].params.client_id))

C21_CodesFresh ==
  \A r, q \in Reqs :
    (r # q /\ IsRedirect(r) /\ IsRedirect(q)) => IssuedCode(r) # IssuedCode(q)

\* Something fails for request r on its way through handleAuthorize: a
\* parameter check or the validator before the fetch, the fetch or a check
\* of the document, the comparison of redirect_uri, or the construction of
\* the redirect URL.
SomethingFailed(r) ==
  \/ reqs[r].fetches = 0
  \/ reqs[r].res.kind = "reject"
  \/ FailingChecks(reqs[r].url, reqs[r].res) # {}
  \/ ~validateRedirectUri(JsString(reqs[r].params.redirect_uri), reqs[r].res.body).ok
  \/ ~ParseURL(JsString(reqs[r].params.redirect_uri)).ok

====
